---- MODULE Spec2Model ----
(***************************************************************************)
(* Model of snapcraft/internal/lxd.py: the container build driver.         *)
(*                                                                         *)
(* A builder (Cleanbuilder or Project) drives the lxc client.  Every       *)
(* external call (check_call, check_output, Popen, sleep) is one step of   *)
(* the model and is appended to the log `calls` together with its         *)
(* outcome.  A call may always fail; it may succeed only when the state of *)
(* the container allows it.  A raised exception is kept in `err` while it  *)
(* travels through the finally blocks; at pc = "done" `err` is what        *)
(* execute surfaced to its caller.                                         *)
(***************************************************************************)
EXTENDS Integers, Sequences, FiniteSets, TLC

VARIABLES
  kind,              \* class of the builder: "Cleanbuilder" or "Project"
  remote,            \* the lxd remote of self._container_name
  debug,             \* self._project_options.debug
  deb_arch,          \* self._project_options.deb_arch
  kernel,            \* kernel architecture reported by the lxd server
  lxc_installed,     \* TRUE iff the lxc client is installed on the host
  environ,           \* os.environ of the host: the <<name, value>> pairs set
  step, args,        \* the arguments of the running execute
  pc,                \* position of the control flow inside execute
  ret,               \* caller of the running _install_packages
  packages,          \* argument of the running _install_packages
  retry_count,       \* local of _wait_for_network
  not_connected,     \* local of _wait_for_network
  err,               \* the exception that is propagating (NoError if none)
  calls,             \* the external calls of the running execute, in order
  processes,         \* self._processes
  container_status,  \* status of the container on the lxd server
  devices,           \* TRUE iff the project folder is a device of the container
  keyfile,           \* TRUE iff the ssh key file id_<container> exists
  ensured,           \* history: _ensure_container returned in this execute
  executions,        \* number of execute calls started so far
  faults,            \* TRUE iff a command may fail although the state of
                     \* the container allows it to succeed
  other,             \* the suspended second invocation (NoOther if none)
  device_add_calls,  \* history: outcomes of the device-add calls issued
                     \* for the present container
  prior              \* history: the executes that have ended

cfg == <<kind, remote, debug, deb_arch, kernel, lxc_installed, environ>>
env == <<container_status, devices, keyfile>>
wait == <<retry_count, not_connected>>
sched == <<faults, other>>
hist == <<device_add_calls, prior>>
vars == <<kind, remote, debug, deb_arch, kernel, lxc_installed, environ, step, args, pc, ret, packages,
          retry_count, not_connected, err, calls, processes,
          container_status, devices, keyfile, ensured, executions,
          faults, other, device_add_calls, prior>>

\* ---------------------------------------------------------------- bounds
MaxExecutes == 2

\* ------------------------------------------------------------- constants
NETWORK_PROBE_COMMAND ==
  "import urllib.request; urllib.request.urlopen(\"http://start.ubuntu.com/connectivity-check.html\", timeout=5)"

RetryCount == 5
SleepSeconds == 5

Kinds == {"Cleanbuilder", "Project"}
Remotes == {"local", "myremote"}
Steps == {"snap", "clean"}
ArgLists == {<<>>, <<"--enable-geoip">>}
Archs == {"amd64", "armhf"}
Kernels == {"x86_64", "armv7l", "mips"}
\* the variables of the host that a created container is to receive, with
\* the values they may have on the host
HostVariables ==
  {<<"SNAPCRAFT_PARTS_URI", "foo">>,
   <<"SNAPCRAFT_BUILD_INFO", "test_build_info_value">>}

NoRemote == ""
RemoteArgs == {NoRemote, "local", "myremote", "nosuch"}

\* snapcraft._options._get_deb_arch: the Debian architecture of a kernel
\* architecture, nothing ("") for one that has no packaging mapping
get_deb_arch(machine) ==
  CASE machine = "x86_64" -> "amd64"
    [] machine = "armv7l" -> "armhf"
    [] OTHER -> ""

\* Mutation: the image follows the target architecture of the project.
host_arch_of_target == deb_arch

\* self._host_arch
host_arch == get_deb_arch(kernel)

snap_output == "snap.snap"
source == "/home/user/project.tar"
basename_source == "project.tar"
project_folder == "build_project"
image == "ubuntu:xenial/" \o host_arch

\* Containerbuild.__init__ / Cleanbuilder.__init__ / Project.__init__
container_name ==
  remote \o ":snapcraft-" \o (IF kind = "Cleanbuilder" THEN "my-pet" ELSE "project")

keyfile_name == "id_" \o container_name

NoError == [type |-> "none", at |-> 0]
NoOther == [pc |-> "none"]

\* The exception raised by the call that is being appended to the log.
Raised(type) == [type |-> type, at |-> Len(calls) + 1]
\* ... with the text it carries, as the pieces of the format
RaisedWith(type, msg) == [type |-> type, at |-> Len(calls) + 1, msg |-> msg]
CalledProcessError == Raised("CalledProcessError")

\* ------------------------------------------------------ command building
\* pipes.quote: a word of safe characters is left alone, anything else is
\* wrapped in single quotes.  The probe script is the only argument with
\* unsafe characters that the program passes.
quote(arg) == IF arg = NETWORK_PROBE_COMMAND THEN "'" \o arg \o "'" ELSE arg

RECURSIVE join(_)
join(cmd) ==
  IF cmd = <<>> THEN ""
  ELSE IF Len(cmd) = 1 THEN quote(Head(cmd))
  ELSE quote(Head(cmd)) \o " " \o join(Tail(cmd))

\* Containerbuild._container_run: the script handed to bash -c and the
\* argv handed to check_call
script(cmd) == "cd /" \o project_folder \o "; " \o join(cmd)

container_run(cmd) ==
  <<"lxc", "exec", container_name, "--", "bash", "-c", script(cmd)>>

\* Mutation: --output is passed for every step.
build_command_always_output ==
  <<"snapcraft", step>>
  \o <<"--output", snap_output>>
  \o (IF host_arch # deb_arch THEN <<"--target-arch", deb_arch>> ELSE <<>>)
  \o args

\* Containerbuild.execute: the build command
build_command ==
  <<"snapcraft", step>>
  \o (IF step = "snap" THEN <<"--output", snap_output>> ELSE <<>>)
  \o (IF host_arch # deb_arch THEN <<"--target-arch", deb_arch>> ELSE <<>>)
  \o args

\* ------------------------------------------------------ control transfer
\* One external call with outcome o: it can succeed only if `possible`.
Outcome(o, fn, argv, possible) ==
  /\ o => possible
  /\ faults \/ (o <=> possible)
  /\ calls' = Append(calls, [fn |-> fn, argv |-> argv, ok |-> o])

Continue(next) == pc' = next /\ err' = err

\* Mutation: the exception leaves execute without running the finally block.
ensure_started_no_finally(e) == pc' = "done" /\ err' = e

\* Containerbuild._ensure_started: an exception raised by _ensure_container
\* or by the body of the with statement runs the finally block.
ensure_started_finally(e) == pc' = "stop" /\ err' = e

\* Mutation: the lock is removed only when the installation succeeded.
install_packages_no_finally(e) == pc' = "stop" /\ err' = e

\* Containerbuild._install_packages: an exception raised in the try block
\* runs the finally block.
install_packages_finally(e) == pc' = "rm_lock" /\ err' = e

\* The call of self._install_packages(pkgs) from caller r.
call_install_packages(pkgs, r) ==
  /\ pc' = "wait_for_network"
  /\ err' = err
  /\ packages' = pkgs
  /\ ret' = r

\* Mutation: the test on the remote is inverted.
mount_mode_swapped ==
  IF kind = "Cleanbuilder" THEN "mkdir_project"
  ELSE IF remote = "local" THEN "remote_mount_devices"
  ELSE "ensure_mount_devices"

\* Mutation: the packages are installed before the project is transferred.
provision_before_transfer == "wait_for_network"

\* Containerbuild._setup_project / Project._setup_project and the branch
\* of Project._ensure_mount on the remote.
setup_project_entry ==
  IF kind = "Cleanbuilder" THEN "mkdir_project"
  ELSE IF remote # "local" THEN "remote_mount_devices"
  ELSE "ensure_mount_devices"

Exists == container_status # "absent"
Running == container_status = "Running"

\* ------------------------------------------------------------------ Init
InitBuilder ==
  /\ kind \in Kinds
  /\ remote \in Remotes
  /\ debug \in BOOLEAN
  /\ deb_arch \in Archs
  /\ kernel = "x86_64"
  /\ lxc_installed = TRUE
  /\ environ = {}
  /\ step = "snap"
  /\ args = <<>>
  /\ pc = "idle"
  /\ ret = "execute"
  /\ packages = <<>>
  /\ retry_count = RetryCount
  /\ not_connected = TRUE
  /\ err = NoError
  /\ calls = <<>>
  /\ processes = <<>>
  /\ container_status \in
       IF kind = "Cleanbuilder" THEN {"absent"}
       ELSE {"absent", "Stopped", "Running"}
  /\ devices \in IF container_status = "absent" THEN {FALSE} ELSE BOOLEAN
  /\ keyfile \in IF kind = "Project" /\ remote # "local" THEN BOOLEAN ELSE {FALSE}
  /\ ensured = FALSE
  /\ executions = 0
  /\ device_add_calls = <<>>
  /\ prior = <<>>

\* one builder; any command may fail
Init == InitBuilder /\ faults = TRUE /\ other = NoOther

\* --------------------------------------------------------------- execute
\* Containerbuild.execute / Project.execute: entry
execute(s, a) ==
  /\ pc \in {"idle", "done"}
  /\ executions < MaxExecutes
  /\ executions' = executions + 1
  /\ step' = s
  /\ args' = a
  /\ calls' = <<>>
  /\ err' = NoError
  /\ ensured' = FALSE
  /\ ret' = "execute"
  /\ packages' = <<>>
  /\ retry_count' = RetryCount
  /\ not_connected' = TRUE
  /\ pc' = IF kind = "Cleanbuilder" THEN "launch" ELSE "ensure_status"
  /\ prior' = IF pc = "done" /\ ~faults
                THEN Append(prior, [step |-> step, args |-> args, err |-> err])
                ELSE prior
  /\ UNCHANGED <<cfg, sched, device_add_calls, env, processes>>

\* ------------------------------------- Containerbuild._ensure_container
launch ==
  /\ pc = "launch"
  /\ \E o \in BOOLEAN:
       /\ Outcome(o, "check_call",
                  <<"lxc", "launch", "-e", image, container_name>>,
                  ~Exists)
       /\ container_status' = IF o THEN "Running" ELSE container_status
       /\ IF o THEN Continue("config_setup_core")
               ELSE ensure_started_finally(CalledProcessError)
  /\ UNCHANGED <<cfg, sched, hist, step, args, ret, packages, wait, processes,
                 devices, keyfile, ensured, executions>>

config_setup_core ==
  /\ pc = "config_setup_core"
  /\ \E o \in BOOLEAN:
       /\ Outcome(o, "check_call",
                  <<"lxc", "config", "set", container_name,
                    "environment.SNAPCRAFT_SETUP_CORE", "1">>,
                  Exists)
       /\ IF o THEN Continue("config_lc_all")
               ELSE ensure_started_finally(CalledProcessError)
  /\ UNCHANGED <<cfg, sched, hist, env, step, args, ret, packages, wait, processes,
                 ensured, executions>>

config_lc_all ==
  /\ pc = "config_lc_all"
  /\ \E o \in BOOLEAN:
       /\ Outcome(o, "check_call",
                  <<"lxc", "config", "set", container_name,
                    "environment.LC_ALL", "C.UTF-8">>,
                  Exists)
       /\ IF o THEN Continue(setup_project_entry) /\ ensured' = TRUE
               ELSE ensure_started_finally(CalledProcessError)
                    /\ ensured' = ensured
  /\ UNCHANGED <<cfg, sched, hist, env, step, args, ret, packages, wait, processes,
                 executions>>

\* ------------------------------------------------ Project._ensure_container
\* Project._get_container_status: the argv handed to check_output
get_container_status == <<"lxc", "list", "--format=json", container_name>>

\* Mutation: the container is created whatever the listing returned.
ensure_status_always_init ==
  /\ pc = "ensure_status"
  /\ \E o \in BOOLEAN:
       /\ Outcome(o, "check_output", get_container_status, TRUE)
       /\ IF o THEN Continue("init")
               ELSE ensure_started_finally(CalledProcessError)
  /\ UNCHANGED <<cfg, sched, hist, env, step, args, ret, packages, wait, processes,
                 ensured, executions>>

\* if not self._get_container_status():
ensure_status ==
  /\ pc = "ensure_status"
  /\ \E o \in BOOLEAN:
       /\ Outcome(o, "check_output", get_container_status, TRUE)
       /\ IF o THEN Continue(IF Exists THEN "ensure_status_again" ELSE "init")
               ELSE ensure_started_finally(CalledProcessError)
  /\ UNCHANGED <<cfg, sched, hist, env, step, args, ret, packages, wait, processes,
                 ensured, executions>>

lxc_init ==
  /\ pc = "init"
  /\ \E o \in BOOLEAN:
       /\ Outcome(o, "check_call",
                  <<"lxc", "init", image, container_name>>, ~Exists)
       /\ container_status' = IF o THEN "Stopped" ELSE container_status
       /\ IF o THEN Continue("project_config_setup_core")
               ELSE ensure_started_finally(CalledProcessError)
  /\ UNCHANGED <<cfg, sched, hist, step, args, ret, packages, wait, processes,
                 devices, keyfile, ensured, executions>>

project_config_setup_core ==
  /\ pc = "project_config_setup_core"
  /\ \E o \in BOOLEAN:
       /\ Outcome(o, "check_call",
                  <<"lxc", "config", "set", container_name,
                    "environment.SNAPCRAFT_SETUP_CORE", "1">>,
                  Exists)
       /\ IF o THEN Continue("config_idmap")
               ELSE ensure_started_finally(CalledProcessError)
  /\ UNCHANGED <<cfg, sched, hist, env, step, args, ret, packages, wait, processes,
                 ensured, executions>>

config_idmap ==
  /\ pc = "config_idmap"
  /\ \E o \in BOOLEAN:
       /\ Outcome(o, "check_call",
                  <<"lxc", "config", "set", container_name,
                    "raw.idmap", "both 1000 0">>,
                  Exists)
       /\ IF o THEN Continue("ensure_status_again")
               ELSE ensure_started_finally(CalledProcessError)
  /\ UNCHANGED <<cfg, sched, hist, env, step, args, ret, packages, wait, processes,
                 ensured, executions>>

\* if self._get_container_status()['status'] == 'Stopped':
\* subscripting the None of an absent container raises TypeError
ensure_status_again ==
  /\ pc = "ensure_status_again"
  /\ \E o \in BOOLEAN:
       /\ Outcome(o, "check_output", get_container_status, TRUE)
       /\ IF ~o THEN ensure_started_finally(CalledProcessError)
                     /\ ensured' = ensured
          ELSE IF ~Exists THEN ensure_started_finally(Raised("TypeError"))
                               /\ ensured' = ensured
          ELSE IF container_status = "Stopped"
                 THEN Continue("start") /\ ensured' = ensured
                 ELSE Continue(setup_project_entry) /\ ensured' = TRUE
  /\ UNCHANGED <<cfg, sched, hist, env, step, args, ret, packages, wait, processes,
                 executions>>

start ==
  /\ pc = "start"
  /\ \E o \in BOOLEAN:
       /\ Outcome(o, "check_call", <<"lxc", "start", container_name>>,
                  container_status = "Stopped")
       /\ container_status' = IF o THEN "Running" ELSE container_status
       /\ IF o THEN Continue(setup_project_entry) /\ ensured' = TRUE
               ELSE ensure_started_finally(CalledProcessError)
                    /\ ensured' = ensured
  /\ UNCHANGED <<cfg, sched, hist, step, args, ret, packages, wait, processes,
                 devices, keyfile, executions>>

\* ------------------------------------------ Containerbuild._setup_project
mkdir_project ==
  /\ pc = "mkdir_project"
  /\ \E o \in BOOLEAN:
       /\ Outcome(o, "check_call",
                  container_run(<<"mkdir", project_folder>>), Running)
       /\ IF o THEN Continue("push_file")
               ELSE ensure_started_finally(CalledProcessError)
  /\ UNCHANGED <<cfg, sched, hist, env, step, args, ret, packages, wait, processes,
                 ensured, executions>>

\* Containerbuild._push_file / _pull_file: the argv handed to check_call
push_file(src, dst) ==
  <<"lxc", "file", "push", src, container_name \o "/" \o dst>>
pull_file(src, dst) ==
  <<"lxc", "file", "pull", container_name \o "/" \o src, dst>>

push_project ==
  /\ pc = "push_file"
  /\ \E o \in BOOLEAN:
       /\ Outcome(o, "check_call",
                  push_file(source, project_folder \o "/" \o basename_source),
                  Running)
       /\ IF o THEN Continue("tar")
               ELSE ensure_started_finally(CalledProcessError)
  /\ UNCHANGED <<cfg, sched, hist, env, step, args, ret, packages, wait, processes,
                 ensured, executions>>

tar ==
  /\ pc = "tar"
  /\ \E o \in BOOLEAN:
       /\ Outcome(o, "check_call",
                  container_run(<<"tar", "xvf", basename_source>>), Running)
       /\ IF o THEN call_install_packages(<<"snapcraft">>, "execute")
               ELSE ensure_started_finally(CalledProcessError)
                    /\ UNCHANGED <<ret, packages>>
  /\ UNCHANGED <<cfg, sched, hist, env, step, args, wait, processes, ensured, executions>>

\* ------------------------------------------------- Project._ensure_mount
\* Mutation: the device is added without looking at the device list.
ensure_mount_always_add ==
  /\ pc = "ensure_mount_devices"
  /\ \E o \in BOOLEAN:
       /\ Outcome(o, "check_output", get_container_status, TRUE)
       /\ IF ~o THEN ensure_started_finally(CalledProcessError)
          ELSE IF ~Exists THEN ensure_started_finally(Raised("TypeError"))
          ELSE Continue("device_add")
  /\ UNCHANGED <<cfg, sched, hist, env, step, args, ret, packages, wait,
                 processes, ensured, executions>>

\* devices = self._get_container_status()['devices']
ensure_mount_devices ==
  /\ pc = "ensure_mount_devices"
  /\ \E o \in BOOLEAN:
       /\ Outcome(o, "check_output", get_container_status, TRUE)
       /\ IF ~o THEN ensure_started_finally(CalledProcessError)
                     /\ UNCHANGED <<ret, packages>>
          ELSE IF ~Exists THEN ensure_started_finally(Raised("TypeError"))
                               /\ UNCHANGED <<ret, packages>>
          ELSE IF ~devices THEN Continue("device_add")
                                /\ UNCHANGED <<ret, packages>>
          ELSE call_install_packages(<<"snapcraft">>, "execute")
  /\ UNCHANGED <<cfg, sched, hist, env, step, args, wait, processes, ensured, executions>>

device_add ==
  /\ pc = "device_add"
  /\ \E o \in BOOLEAN:
       /\ Outcome(o, "check_call",
                  <<"lxc", "config", "device", "add", container_name,
                    project_folder, "disk", "source=" \o source,
                    "path=/" \o project_folder>>,
                  Exists /\ ~devices)
       /\ devices' = IF o THEN TRUE ELSE devices
       /\ device_add_calls' = Append(device_add_calls, o)
       /\ IF o THEN call_install_packages(<<"snapcraft">>, "execute")
               ELSE ensure_started_finally(CalledProcessError)
                    /\ UNCHANGED <<ret, packages>>
  /\ UNCHANGED <<cfg, sched, prior, container_status, keyfile, step, args, wait,
                 processes, ensured, executions>>

\* ------------------------------------------------- Project._remote_mount
\* Mutation: the key pair is generated on every reverse mount.
remote_mount_always_keygen ==
  /\ pc = "remote_mount_devices"
  /\ \E o \in BOOLEAN:
       /\ Outcome(o, "check_output", get_container_status, TRUE)
       /\ IF ~o THEN ensure_started_finally(CalledProcessError)
          ELSE IF ~Exists THEN ensure_started_finally(Raised("TypeError"))
          ELSE IF devices THEN Continue("device_remove")
          ELSE Continue("ssh_keygen")
  /\ UNCHANGED <<cfg, sched, hist, env, step, args, ret, packages, wait, processes,
                 ensured, executions>>

\* Mutation: a device left from a local mount is not removed.
remote_mount_keep_device ==
  /\ pc = "remote_mount_devices"
  /\ \E o \in BOOLEAN:
       /\ Outcome(o, "check_output", get_container_status, TRUE)
       /\ IF ~o THEN ensure_started_finally(CalledProcessError)
          ELSE IF ~Exists THEN ensure_started_finally(Raised("TypeError"))
          ELSE Continue(IF keyfile THEN "mkdir_ssh" ELSE "ssh_keygen")
  /\ UNCHANGED <<cfg, sched, hist, env, step, args, ret, packages, wait,
                 processes, ensured, executions>>

\* devices = self._get_container_status()['devices']
remote_mount_devices ==
  /\ pc = "remote_mount_devices"
  /\ \E o \in BOOLEAN:
       /\ Outcome(o, "check_output", get_container_status, TRUE)
       /\ IF ~o THEN ensure_started_finally(CalledProcessError)
          ELSE IF ~Exists THEN ensure_started_finally(Raised("TypeError"))
          ELSE IF devices THEN Continue("device_remove")
          ELSE Continue(IF keyfile THEN "mkdir_ssh" ELSE "ssh_keygen")
  /\ UNCHANGED <<cfg, sched, hist, env, step, args, ret, packages, wait, processes,
                 ensured, executions>>

device_remove ==
  /\ pc = "device_remove"
  /\ \E o \in BOOLEAN:
       /\ Outcome(o, "check_call",
                  <<"lxc", "config", "device", "remove", container_name,
                    project_folder, "disk", "source=" \o source,
                    "path=/" \o project_folder>>,
                  Exists /\ devices)
       /\ devices' = IF o THEN FALSE ELSE devices
       /\ IF o THEN Continue(IF keyfile THEN "mkdir_ssh" ELSE "ssh_keygen")
               ELSE ensure_started_finally(CalledProcessError)
  /\ UNCHANGED <<cfg, sched, hist, container_status, keyfile, step, args, ret, packages,
                 wait, processes, ensured, executions>>

\* check_call(['ssh-keygen', ...], stdout=os.devnull): os.devnull is the
\* string '/dev/null', which subprocess rejects (it has no fileno) before
\* it spawns ssh-keygen, so the call raises and no key file is written.
ssh_keygen ==
  /\ pc = "ssh_keygen"
  /\ Outcome(FALSE, "check_call",
             <<"ssh-keygen", "-o", "-N", "", "-f", keyfile_name>>, FALSE)
  /\ ensure_started_finally(Raised("AttributeError"))
  /\ UNCHANGED <<cfg, sched, hist, env, step, args, ret, packages, wait, processes,
                 ensured, executions>>

ssh_config == "/root/.ssh"
ssh_authorized_keys == ssh_config \o "/authorized_keys"

mkdir_ssh ==
  /\ pc = "mkdir_ssh"
  /\ \E o \in BOOLEAN:
       /\ Outcome(o, "check_call",
                  container_run(<<"mkdir", "-p", ssh_config>>), Running)
       /\ IF o THEN Continue("chmod_ssh")
               ELSE ensure_started_finally(CalledProcessError)
  /\ UNCHANGED <<cfg, sched, hist, env, step, args, ret, packages, wait, processes,
                 ensured, executions>>

chmod_ssh ==
  /\ pc = "chmod_ssh"
  /\ \E o \in BOOLEAN:
       /\ Outcome(o, "check_call",
                  container_run(<<"chmod", "700", ssh_config>>), Running)
       /\ IF o THEN Continue("tee_authorized_keys")
               ELSE ensure_started_finally(CalledProcessError)
  /\ UNCHANGED <<cfg, sched, hist, env, step, args, ret, packages, wait, processes,
                 ensured, executions>>

tee_authorized_keys ==
  /\ pc = "tee_authorized_keys"
  /\ \E o \in BOOLEAN:
       /\ Outcome(o, "check_call",
                  container_run(<<"tee", "-a", ssh_authorized_keys>>),
                  Running)
       /\ IF o THEN Continue("chmod_authorized_keys")
               ELSE ensure_started_finally(CalledProcessError)
  /\ UNCHANGED <<cfg, sched, hist, env, step, args, ret, packages, wait, processes,
                 ensured, executions>>

chmod_authorized_keys ==
  /\ pc = "chmod_authorized_keys"
  /\ \E o \in BOOLEAN:
       /\ Outcome(o, "check_call",
                  container_run(<<"chmod", "600", ssh_authorized_keys>>),
                  Running)
       /\ IF o THEN call_install_packages(<<"sshfs">>, "remote_mount")
               ELSE ensure_started_finally(CalledProcessError)
                    /\ UNCHANGED <<ret, packages>>
  /\ UNCHANGED <<cfg, sched, hist, env, step, args, wait, processes, ensured, executions>>

mkdir_destination ==
  /\ pc = "mkdir_destination"
  /\ \E o \in BOOLEAN:
       /\ Outcome(o, "check_call",
                  container_run(<<"mkdir", "-p", "/" \o project_folder>>),
                  Running)
       /\ IF o THEN Continue("mkdir_source")
               ELSE ensure_started_finally(CalledProcessError)
  /\ UNCHANGED <<cfg, sched, hist, env, step, args, ret, packages, wait, processes,
                 ensured, executions>>

mkdir_source ==
  /\ pc = "mkdir_source"
  /\ \E o \in BOOLEAN:
       /\ Outcome(o, "check_call",
                  container_run(<<"mkdir", "-p", source>>), Running)
       /\ IF o THEN Continue("get_container_address")
               ELSE ensure_started_finally(CalledProcessError)
  /\ UNCHANGED <<cfg, sched, hist, env, step, args, ret, packages, wait, processes,
                 ensured, executions>>

\* Project._get_container_address: the listing may fail, the container
\* may have no eth0 (KeyError) or no inet address (RuntimeError).
AddressOutcomes == {"ok", "CalledProcessError", "KeyError", "RuntimeError"}

get_container_address ==
  /\ pc = "get_container_address"
  /\ \E r \in AddressOutcomes:
       /\ faults \/ r = "ok"
       /\ Outcome(r # "CalledProcessError", "check_output",
                  get_container_status, TRUE)
       /\ IF r = "ok" THEN Continue("host_run_sftp")
          ELSE IF ~Exists /\ r # "CalledProcessError"
                 THEN ensure_started_finally(Raised("TypeError"))
          ELSE ensure_started_finally(Raised(r))
  /\ UNCHANGED <<cfg, sched, hist, env, step, args, ret, packages, wait, processes,
                 ensured, executions>>

\* Project._host_run: Popen raises OSError when the program cannot be
\* executed; on success the process is appended to self._processes.
PopenOutcomes == {"ok", "OSError"}

Popen(cmd, stdin, stdout) ==
  [args |-> cmd, stdin |-> stdin, stdout |-> stdout, terminated |-> FALSE]

host_run(r, cmd, stdin, stdout) ==
  /\ faults \/ r = "ok"
  /\ calls' = Append(calls, [fn |-> "Popen", argv |-> cmd, ok |-> r = "ok"])
  /\ processes' = IF r = "ok" THEN Append(processes, Popen(cmd, stdin, stdout))
                              ELSE processes

\* os.pipe() twice: (stdin1, stdout1) and (stdin2, stdout2)
stdin1 == "pipe1.read"
stdout1 == "pipe1.write"
stdin2 == "pipe2.read"
stdout2 == "pipe2.write"

\* os.pipe() returns the pair (read end, write end) of one pipe
pipe1 == [read |-> stdin1, write |-> stdout1]
pipe2 == [read |-> stdin2, write |-> stdout2]

\* Mutation: the sftp-server is given both ends of the first pipe.
host_run_sftp_one_pipe ==
  /\ pc = "host_run_sftp"
  /\ \E r \in PopenOutcomes:
       /\ host_run(r, <<"/usr/lib/sftp-server">>, stdin1, stdout1)
       /\ IF r = "ok" THEN Continue("host_run_ssh")
          ELSE ensure_started_finally(Raised(r))
  /\ UNCHANGED <<cfg, sched, hist, env, step, args, ret, packages, wait, ensured,
                 executions>>

\* try: self._host_run(['/usr/lib/sftp-server'], ...)
\* except CalledProcessError: raise SnapcraftEnvironmentError
host_run_sftp ==
  /\ pc = "host_run_sftp"
  /\ \E r \in PopenOutcomes:
       /\ host_run(r, <<"/usr/lib/sftp-server">>, stdin1, stdout2)
       /\ IF r = "ok" THEN Continue("host_run_ssh")
          ELSE IF r = "CalledProcessError"
                 THEN ensure_started_finally(Raised("SnapcraftEnvironmentError"))
          ELSE ensure_started_finally(Raised(r))
  /\ UNCHANGED <<cfg, sched, hist, env, step, args, ret, packages, wait, ensured,
                 executions>>

ssh_address == "10.0.0.2"

host_run_ssh ==
  /\ pc = "host_run_ssh"
  /\ \E r \in PopenOutcomes:
       /\ host_run(r, <<"ssh", "-C", "-F", "/dev/null",
                        "-o", "IdentityFile=" \o keyfile_name,
                        "-o", "StrictHostKeyChecking=no",
                        "-o", "UserKnownHostsFile=/dev/null",
                        "-o", "User=root",
                        "-p", "22", ssh_address,
                        "sshfs -o slave -o nonempty :" \o source
                          \o " /" \o project_folder>>,
                   stdin2, stdout1)
       /\ IF r = "ok" THEN call_install_packages(<<"snapcraft">>, "execute")
          ELSE ensure_started_finally(Raised(r)) /\ UNCHANGED <<ret, packages>>
  /\ UNCHANGED <<cfg, sched, hist, env, step, args, wait, ensured, executions>>

\* --------------------------------------- Containerbuild._wait_for_network
\* Mutation: the installation starts without waiting for the network.
skip_wait_for_network ==
  /\ pc = "wait_for_network"
  /\ not_connected' = FALSE
  /\ retry_count' = RetryCount
  /\ Continue("apt_update")
  /\ UNCHANGED <<cfg, sched, hist, env, step, args, ret, packages, calls, processes,
                 ensured, executions>>

wait_for_network ==
  /\ pc = "wait_for_network"
  /\ not_connected' = TRUE
  /\ retry_count' = RetryCount
  /\ Continue("sleep")
  /\ UNCHANGED <<cfg, sched, hist, env, step, args, ret, packages, calls, processes,
                 ensured, executions>>

\* Mutation: the delay is skipped before the first probe.
sleep_between_probes ==
  /\ pc = "sleep"
  /\ not_connected
  /\ IF retry_count = RetryCount THEN calls' = calls
       ELSE Outcome(TRUE, "sleep", <<ToString(SleepSeconds)>>, TRUE)
  /\ Continue("probe")
  /\ UNCHANGED <<cfg, sched, hist, env, step, args, ret, packages, wait, processes,
                 ensured, executions>>

\* while not_connected: sleep(5)
sleep ==
  /\ pc = "sleep"
  /\ not_connected
  /\ Outcome(TRUE, "sleep", <<ToString(SleepSeconds)>>, TRUE)
  /\ Continue("probe")
  /\ UNCHANGED <<cfg, sched, hist, env, step, args, ret, packages, wait, processes,
                 ensured, executions>>

probe_command == container_run(<<"python3", "-c", NETWORK_PROBE_COMMAND>>)

\* Mutation: one retry more than the budget.
retries_exhausted_late(n) == n < 0

\* if retry_count == 0: raise e
retries_exhausted(n) == n = 0

\* Mutation: a success of the first probe is checked a second time.
probe_checks_again ==
  /\ pc = "probe"
  /\ \E o \in BOOLEAN:
       /\ Outcome(o, "check_call", probe_command, Running)
       /\ IF o THEN /\ not_connected' = (retry_count = RetryCount)
                    /\ retry_count' = retry_count - 1
                    /\ Continue(IF not_connected' THEN "sleep" ELSE "apt_update")
               ELSE /\ not_connected' = not_connected
                    /\ retry_count' = retry_count - 1
                    /\ IF retries_exhausted(retry_count')
                         THEN install_packages_finally(CalledProcessError)
                         ELSE Continue("sleep")
  /\ UNCHANGED <<cfg, sched, hist, env, step, args, ret, packages, processes,
                 ensured, executions>>

probe ==
  /\ pc = "probe"
  /\ \E o \in BOOLEAN:
       /\ Outcome(o, "check_call", probe_command, Running)
       /\ IF o THEN /\ not_connected' = FALSE
                    /\ retry_count' = retry_count
                    /\ Continue("apt_update")
               ELSE /\ not_connected' = not_connected
                    /\ retry_count' = retry_count - 1
                    /\ IF retries_exhausted(retry_count')
                         THEN install_packages_finally(CalledProcessError)
                         ELSE Continue("sleep")
  /\ UNCHANGED <<cfg, sched, hist, env, step, args, ret, packages, processes,
                 ensured, executions>>

\* --------------------------------------- Containerbuild._install_packages
apt_update ==
  /\ pc = "apt_update"
  /\ \E o \in BOOLEAN:
       /\ Outcome(o, "check_call",
                  container_run(<<"apt-get", "update">>), Running)
       /\ IF o THEN Continue("apt_install")
               ELSE install_packages_finally(CalledProcessError)
  /\ UNCHANGED <<cfg, sched, hist, env, step, args, ret, packages, wait, processes,
                 ensured, executions>>

apt_install ==
  /\ pc = "apt_install"
  /\ \E o \in BOOLEAN:
       /\ Outcome(o, "check_call",
                  container_run(<<"apt-get", "install", "-y">> \o packages),
                  Running)
       /\ IF o THEN Continue("rm_lock")
               ELSE install_packages_finally(CalledProcessError)
  /\ UNCHANGED <<cfg, sched, hist, env, step, args, ret, packages, wait, processes,
                 ensured, executions>>

rm_lock_command == container_run(<<"rm", "-f", "/var/lib/apt/lists/lock">>)

\* finally: the lock is removed; an exception of the removal replaces the
\* pending one, otherwise the pending one continues to propagate.
rm_lock ==
  /\ pc = "rm_lock"
  /\ \E o \in BOOLEAN:
       /\ Outcome(o, "check_call", rm_lock_command, Running)
       /\ IF ~o THEN ensure_started_finally(CalledProcessError)
          ELSE IF err # NoError THEN ensure_started_finally(err)
          ELSE Continue(IF ret = "execute" THEN "build" ELSE "mkdir_destination")
  /\ UNCHANGED <<cfg, sched, hist, env, step, args, ret, packages, wait, processes,
                 ensured, executions>>

\* ------------------------------------------------ Containerbuild.execute
\* try: self._container_run(command)
\* except CalledProcessError: debug shell or raise;  else: self._finish()
\* (the build of the project can fail in a healthy container as well, so
\* its failure does not depend on `faults`)
build ==
  /\ pc = "build"
  /\ \E o \in BOOLEAN:
       /\ o => Running
       /\ calls' = Append(calls, [fn |-> "check_call",
                                  argv |-> container_run(build_command),
                                  ok |-> o])
       /\ IF o THEN Continue("finish")
          ELSE IF debug THEN Continue("shell")
          ELSE ensure_started_finally(CalledProcessError)
  /\ UNCHANGED <<cfg, sched, hist, env, step, args, ret, packages, wait, processes,
                 ensured, executions>>

shell_command == container_run(<<"bash", "-i">>)

\* Mutation: the else branch of the try runs after the shell.
shell_then_finish ==
  /\ pc = "shell"
  /\ \E o \in BOOLEAN:
       /\ Outcome(o, "check_call", shell_command, Running)
       /\ IF o THEN Continue("finish")
               ELSE ensure_started_finally(CalledProcessError)
  /\ UNCHANGED <<cfg, sched, hist, env, step, args, ret, packages, wait, processes,
                 ensured, executions>>

shell ==
  /\ pc = "shell"
  /\ \E o \in BOOLEAN:
       /\ Outcome(o, "check_call", shell_command, Running)
       /\ IF o THEN Continue("stop")
               ELSE ensure_started_finally(CalledProcessError)
  /\ UNCHANGED <<cfg, sched, hist, env, step, args, ret, packages, wait, processes,
                 ensured, executions>>

\* Mutation: the artifact is left in the container.
finish_without_pull ==
  /\ pc = "finish"
  /\ kind = "Cleanbuilder"
  /\ Continue("stop")
  /\ UNCHANGED <<cfg, sched, hist, env, step, args, ret, packages, wait,
                 calls, processes, ensured, executions>>

\* Mutation: only the snap of a 'snap' step is pulled.
finish_only_for_snap ==
  /\ pc = "finish"
  /\ kind = "Cleanbuilder"
  /\ \E o \in BOOLEAN:
       /\ IF step = "snap"
            THEN Outcome(o, "check_call",
                         pull_file(project_folder \o "/" \o snap_output, snap_output),
                         Running)
            ELSE o /\ calls' = calls
       /\ IF o THEN Continue("stop")
               ELSE ensure_started_finally(CalledProcessError)
  /\ UNCHANGED <<cfg, sched, hist, env, step, args, ret, packages, wait, processes,
                 ensured, executions>>

\* Containerbuild._finish
finish ==
  /\ pc = "finish"
  /\ kind = "Cleanbuilder"
  /\ \E o \in BOOLEAN:
       /\ Outcome(o, "check_call",
                  pull_file(project_folder \o "/" \o snap_output, snap_output),
                  Running)
       /\ IF o THEN Continue("stop")
               ELSE ensure_started_finally(CalledProcessError)
  /\ UNCHANGED <<cfg, sched, hist, env, step, args, ret, packages, wait, processes,
                 ensured, executions>>

\* Project._finish: for process in self._processes: process.terminate()
project_finish ==
  /\ pc = "finish"
  /\ kind = "Project"
  /\ processes' = [i \in DOMAIN processes |->
                     [processes[i] EXCEPT !.terminated = TRUE]]
  /\ Continue("stop")
  /\ UNCHANGED <<cfg, sched, hist, env, step, args, ret, packages, wait, calls,
                 ensured, executions>>

\* ----------------------------- Containerbuild._ensure_started: finally
stop_command == <<"lxc", "stop", "-f", container_name>>

\* Mutation: a bare 'clean' deletes the container although execute raised.
after_execute_despite_error(e) ==
  IF kind = "Project" /\ step = "clean" /\ args = <<>>
    THEN "delete" ELSE "done"

\* Mutation: 'clean' deletes the container whatever its arguments.
after_execute_any_args(e) ==
  IF kind = "Project" /\ e = NoError /\ step = "clean"
    THEN "delete" ELSE "done"

\* Mutation: the container is launched without -e.
stopped_status_kept == "Stopped"

\* the status of the container after a stop: one launched with -e
\* (Containerbuild._ensure_container) is removed by the server
stopped_status == IF kind = "Cleanbuilder" THEN "absent" ELSE "Stopped"

\* after the with statement: Project.execute deletes the container when
\* super().execute returned and the step is a bare 'clean'.
after_execute(e) ==
  IF kind = "Project" /\ e = NoError /\ step = "clean" /\ args = <<>>
    THEN "delete" ELSE "done"

\* check_call(['lxc', 'stop', '-f', ...]) in the finally block: its
\* exception replaces the pending one.  Stopping a container launched
\* with -e removes it.
stop ==
  /\ pc = "stop"
  /\ \E o \in BOOLEAN:
       /\ Outcome(o, "check_call", stop_command, Running)
       /\ container_status' =
            IF ~o THEN container_status ELSE stopped_status
       /\ devices' = IF o /\ stopped_status = "absent" THEN FALSE ELSE devices
       /\ err' = IF o THEN err ELSE CalledProcessError
       /\ pc' = after_execute(err')
  /\ UNCHANGED <<cfg, sched, hist, keyfile, step, args, ret, packages, wait, processes,
                 ensured, executions>>

\* ------------------------------------------------------- Project.execute
delete_command == <<"lxc", "delete", "-f", container_name>>

delete ==
  /\ pc = "delete"
  /\ \E o \in BOOLEAN:
       /\ Outcome(o, "check_call", delete_command, Exists)
       /\ container_status' = IF o THEN "absent" ELSE container_status
       /\ devices' = IF o THEN FALSE ELSE devices
       /\ device_add_calls' = IF o THEN <<>> ELSE device_add_calls
       /\ err' = IF o THEN err ELSE CalledProcessError
       /\ pc' = "done"
  /\ UNCHANGED <<cfg, sched, prior, keyfile, step, args, ret, packages, wait, processes,
                 ensured, executions>>

\* ------------------------------------------------------------------ Next
Next ==
  \/ \E s \in Steps, a \in ArgLists: execute(s, a)
  \/ launch \/ config_setup_core \/ config_lc_all
  \/ ensure_status \/ lxc_init \/ project_config_setup_core \/ config_idmap
  \/ ensure_status_again \/ start
  \/ mkdir_project \/ push_project \/ tar
  \/ ensure_mount_devices \/ device_add
  \/ remote_mount_devices \/ device_remove \/ ssh_keygen
  \/ mkdir_ssh \/ chmod_ssh \/ tee_authorized_keys \/ chmod_authorized_keys
  \/ mkdir_destination \/ mkdir_source \/ get_container_address
  \/ host_run_sftp \/ host_run_ssh
  \/ wait_for_network \/ sleep \/ probe
  \/ apt_update \/ apt_install \/ rm_lock
  \/ build \/ shell \/ finish \/ project_finish
  \/ stop \/ delete

Spec == Init /\ [][Next]_vars

\* ------------------------------------------------ Containerbuild.__init__
\* The construction of a builder: pc = "new" before it, "idle" once the
\* builder exists, "failed" when __init__ raised.
repr(str) == "'" \o str \o "'"

lxd_not_installed_text ==
  <<"You must have LXD installed in order to use cleanbuild. However, it is either not installed or not configured properly.",
    "Refer to the documentation at https://linuxcontainers.org/lxd/getting-started-cli.">>

remote_not_verified_text(r) ==
  <<"There are either no permissions or the remote ", repr(r), " does not exist.",
    "Verify the existing remotes by running lxc remote list",
    "To setup a new remote, follow the instructions at",
    "https://linuxcontainers.org/lxd/getting-started-cli/#multiple-hosts">>

unrecognized_architecture_text(k) ==
  <<"Unrecognized server architecture ", k>>

\* what a call to the lxc client raises when it does not return: the
\* subprocess module raises FileNotFoundError when there is no lxc to run
\* and CalledProcessError when lxc exits with an error
lxc_failure == IF lxc_installed THEN "CalledProcessError" ELSE "FileNotFoundError"

\* except CalledProcessError: raise SnapcraftEnvironmentError(text)
except_CalledProcessError(text) ==
  IF lxc_failure = "CalledProcessError"
    THEN RaisedWith("SnapcraftEnvironmentError", text)
    ELSE Raised(lxc_failure)

init_raises(e) == pc' = "failed" /\ err' = e

\* if not remote: remote = _get_default_remote()
get_default_remote ==
  /\ pc = "new"
  /\ remote = NoRemote
  /\ \E o \in BOOLEAN, r \in Remotes:
       /\ Outcome(o, "check_output", <<"lxc", "remote", "get-default">>,
                  lxc_installed)
       /\ IF o THEN remote' = r /\ Continue("verify_remote")
               ELSE /\ remote' = remote
                    /\ init_raises(except_CalledProcessError(lxd_not_installed_text))
  /\ UNCHANGED <<kind, debug, deb_arch, kernel, lxc_installed, environ, sched, hist,
                 env, step, args, ret, packages, wait, processes, ensured,
                 executions>>

\* Mutation: the remote is verified by launching the container on it.
verify_remote_by_launch ==
  /\ \/ pc = "new" /\ remote # NoRemote
     \/ pc = "verify_remote"
  /\ \E o \in BOOLEAN:
       /\ Outcome(o, "check_call", <<"lxc", "launch", image, container_name>>,
                  lxc_installed /\ remote \in Remotes)
       /\ container_status' = IF o THEN "Running" ELSE container_status
       /\ IF o THEN Continue("get_remote_info")
               ELSE init_raises(except_CalledProcessError(
                                  remote_not_verified_text(remote)))
  /\ UNCHANGED <<cfg, sched, hist, devices, keyfile, step, args, ret, packages,
                 wait, processes, ensured, executions>>

\* Mutation: the remote is taken as given.
verify_remote_skipped ==
  /\ \/ pc = "new" /\ remote # NoRemote
     \/ pc = "verify_remote"
  /\ Continue("get_remote_info")
  /\ UNCHANGED <<cfg, sched, hist, env, step, args, ret, packages, wait,
                 calls, processes, ensured, executions>>

\* _verify_remote(remote)
verify_remote ==
  /\ \/ pc = "new" /\ remote # NoRemote
     \/ pc = "verify_remote"
  /\ \E o \in BOOLEAN:
       /\ Outcome(o, "check_output", <<"lxc", "list", remote \o ":">>,
                  lxc_installed /\ remote \in Remotes)
       /\ IF o THEN Continue("get_remote_info")
               ELSE init_raises(except_CalledProcessError(
                                  remote_not_verified_text(remote)))
  /\ UNCHANGED <<cfg, sched, hist, env, step, args, ret, packages, wait,
                 processes, ensured, executions>>

\* server_environment = self._get_remote_info()['environment'] and the
\* resolution of the server architecture
get_remote_info ==
  /\ pc = "get_remote_info"
  /\ \E o \in BOOLEAN:
       /\ Outcome(o, "check_output", <<"lxc", "info", remote \o ":">>,
                  lxc_installed /\ remote \in Remotes)
       /\ IF ~o THEN init_raises(Raised(lxc_failure))
          ELSE IF get_deb_arch(kernel) = ""
            THEN init_raises(RaisedWith("SnapcraftEnvironmentError",
                                        unrecognized_architecture_text(kernel)))
          ELSE Continue("idle")
  /\ UNCHANGED <<cfg, sched, hist, env, step, args, ret, packages, wait,
                 processes, ensured, executions>>

\* before the constructor is called; a command fails only if the state of
\* the host or of the server makes it fail
InitConstruct ==
  /\ kind \in Kinds
  /\ remote \in RemoteArgs
  /\ debug \in BOOLEAN
  /\ deb_arch \in Archs
  /\ kernel \in Kernels
  /\ lxc_installed \in BOOLEAN
  /\ environ \in SUBSET HostVariables
  /\ step = "snap"
  /\ args = <<>>
  /\ pc = "new"
  /\ ret = "execute"
  /\ packages = <<>>
  /\ retry_count = RetryCount
  /\ not_connected = TRUE
  /\ err = NoError
  /\ calls = <<>>
  /\ processes = <<>>
  /\ container_status \in
       IF kind = "Cleanbuilder" THEN {"absent"}
       ELSE {"absent", "Stopped", "Running"}
  /\ devices \in IF container_status = "absent" THEN {FALSE} ELSE BOOLEAN
  /\ keyfile \in IF kind = "Project" THEN BOOLEAN ELSE {FALSE}
  /\ ensured = FALSE
  /\ executions = 0
  /\ device_add_calls = <<>>
  /\ prior = <<>>
  /\ faults = FALSE
  /\ other = NoOther

NextConstruct ==
  \/ get_default_remote \/ verify_remote \/ get_remote_info
  \/ Next

SpecConstruct == InitConstruct /\ [][NextConstruct]_vars

\* =================================================================
\* Properties
\* =================================================================
Last == calls[Len(calls)]

IsLxc(c, verb) ==
  c.fn = "check_call" /\ Len(c.argv) >= 2 /\ c.argv[1] = "lxc" /\ c.argv[2] = verb

StopCalls == {i \in DOMAIN calls : calls[i].argv = stop_command}
DeleteCalls == {i \in DOMAIN calls : calls[i].argv = delete_command}
BuildCalls == {i \in DOMAIN calls : calls[i].argv = container_run(build_command)}
ShellCalls == {i \in DOMAIN calls : calls[i].argv = shell_command}
FailedCalls == {i \in DOMAIN calls : ~calls[i].ok}

\* execute has returned or raised
Returned == pc = "done"

\* ---- C1 ----------------------------------------------------------------
\* C1: in every execute the stop command is issued at most once, and once
\* _ensure_container has returned, an execute that has left the with
\* statement has issued the stop exactly once, after every failed call of
\* the later stages (transfer, network wait, installation, build command,
\* artifact retrieval).
C1_TeardownExactlyOnce ==
  /\ Cardinality(StopCalls) <= 1
  /\ (ensured /\ pc \in {"done", "delete"}) =>
        /\ Cardinality(StopCalls) = 1
        /\ \A i \in StopCalls : \A j \in FailedCalls :
              calls[j].argv \notin {stop_command, delete_command} => j < i

\* a build command that failed without debug was followed by one stop
C1_Witness ==
  /\ Returned /\ ensured /\ ~debug
  /\ \E j \in BuildCalls : ~calls[j].ok
  /\ Cardinality(StopCalls) = 1

\* ---- C2 ----------------------------------------------------------------
\* C2: if lxc launch, lxc init or lxc start failed in this execute, no
\* 'lxc stop' and no 'lxc delete' is issued.
C2_NoStopWhenNeverRunning ==
  (\E i \in FailedCalls : IsLxc(calls[i], "launch") \/ IsLxc(calls[i], "init")
                            \/ IsLxc(calls[i], "start"))
    => StopCalls = {} /\ DeleteCalls = {}

\* ---- C3 ----------------------------------------------------------------
\* C3: the error that is pending when the stop runs is still the pending
\* error after the stop, also when the stop fails.
C3_TeardownDoesNotMask ==
  [][(pc = "stop" /\ err # NoError) => err' = err]_vars

\* ---- C4 ----------------------------------------------------------------
\* C4: when the build command failed, then with debug the shell has been
\* run and execute surfaces no error; without debug execute surfaces the
\* error of the build command and the shell was never invoked.
C4_DebugBranch ==
  Returned =>
    \A i \in BuildCalls : ~calls[i].ok =>
      IF debug THEN ShellCalls # {} /\ err = NoError
               ELSE ShellCalls = {} /\ err.at = i

\* ---- C5 ----------------------------------------------------------------
\* C5: when execute ends, every process of self._processes has been
\* terminated.
C5_ProcessesTerminated ==
  Returned => \A i \in DOMAIN processes : processes[i].terminated

\* ---- _wait_for_network: the calls of the running (or last) wait --------
probe_script == script(<<"python3", "-c", NETWORK_PROBE_COMMAND>>)
IsRun(c, scr) ==
  /\ c.fn = "check_call" /\ Len(c.argv) = 7
  /\ c.argv[2] = "exec" /\ c.argv[7] = scr
IsProbe(c) == IsRun(c, probe_script)
IsSleep(c) == c.fn = "sleep"
IsWaitCall(c) == IsSleep(c) \/ IsProbe(c)

\* first index of the longest suffix of the log made of sleeps and probes
WaitStart ==
  CHOOSE i \in 1..(Len(calls) + 1) :
    /\ \A j \in i..Len(calls) : IsWaitCall(calls[j])
    /\ (i = 1 \/ ~IsWaitCall(calls[i - 1]))

Probes == {j \in WaitStart..Len(calls) : IsProbe(calls[j])}
Sleeps == {j \in WaitStart..Len(calls) : IsSleep(calls[j])}

\* the wait has just returned normally / has just raised
WaitReturned == pc = "apt_update"
WaitRaised == pc = "rm_lock" /\ calls # <<>> /\ IsProbe(Last)

\* ---- C6 ----------------------------------------------------------------
\* C6: one wait issues at most 5 probes; it goes on only after fewer than
\* 5 failed probes; it raises after exactly 5 probes that all failed, with
\* the error of the last one; it returns after exactly k probes, 1 <= k <= 5,
\* of which only the last succeeded.
C6_ProbeBound ==
  /\ Cardinality(Probes) <= 5
  /\ pc = "sleep" =>
        /\ Cardinality(Probes) < 5
        /\ \A j \in Probes : ~calls[j].ok
  /\ WaitRaised =>
        /\ Cardinality(Probes) = 5
        /\ \A j \in Probes : ~calls[j].ok
        /\ err = [type |-> "CalledProcessError", at |-> Len(calls)]
  /\ WaitReturned =>
        /\ Cardinality(Probes) \in 1..5
        /\ Last.ok /\ IsProbe(Last)
        /\ \A j \in Probes : j # Len(calls) => ~calls[j].ok
        /\ err = NoError

\* a wait that gave up after five failed probes, in an execute whose
\* earlier wait returned on its third probe
C6_Witness ==
  /\ WaitRaised /\ Cardinality(Probes) = 5
  /\ \E j \in DOMAIN calls :
        /\ j > 6
        /\ IsProbe(calls[j]) /\ calls[j].ok
        /\ IsProbe(calls[j - 2]) /\ ~calls[j - 2].ok
        /\ IsProbe(calls[j - 4]) /\ ~calls[j - 4].ok
        /\ ~IsWaitCall(calls[j - 6])

\* ---- C7 ----------------------------------------------------------------
\* C7 (as claimed): a wait that returns after k probes has slept k - 1
\* times.
C7_SleepOnlyAfterFailure ==
  WaitReturned => Cardinality(Sleeps) = Cardinality(Probes) - 1

\* C7 (amended): the delay is slept before every probe, the first one
\* included: every probe directly follows a sleep, every sleep is directly
\* followed by a probe, and a wait that returns after k probes has slept
\* k times.
C7_SleepBeforeEveryProbe ==
  /\ \A j \in DOMAIN calls :
        IsProbe(calls[j]) => j > 1 /\ IsSleep(calls[j - 1])
  /\ \A j \in DOMAIN calls :
        IsSleep(calls[j]) =>
          IF j = Len(calls) THEN pc = "probe" ELSE IsProbe(calls[j + 1])
  /\ WaitReturned => Cardinality(Sleeps) = Cardinality(Probes)

\* the first probe succeeded and one sleep preceded it
C7_Witness ==
  /\ WaitReturned
  /\ Cardinality(Probes) = 1
  /\ Cardinality(Sleeps) = 1

\* ---- _install_packages: the calls of one installation attempt ----------
apt_update_script == script(<<"apt-get", "update">>)
apt_install_scripts ==
  {script(<<"apt-get", "install", "-y">> \o pkgs) :
     pkgs \in {<<"snapcraft">>, <<"sshfs">>}}
rm_lock_script == script(<<"rm", "-f", "/var/lib/apt/lists/lock">>)
IsAptUpdate(c) == IsRun(c, apt_update_script)
IsAptInstall(c) == \E scr \in apt_install_scripts : IsRun(c, scr)
IsApt(c) == IsAptUpdate(c) \/ IsAptInstall(c)
IsRmLock(c) == IsRun(c, rm_lock_script)
InstallPcs == {"wait_for_network", "sleep", "probe", "apt_update",
               "apt_install", "rm_lock"}

\* ---- C8 ----------------------------------------------------------------
\* C8: every apt-get update and apt-get install follows a successful probe
\* of the same installation attempt (no lock removal in between), and a
\* wait that gave up is followed by no apt-get command in its attempt.
C8_NetworkWaitBeforeInstall ==
  /\ \A i \in DOMAIN calls : IsApt(calls[i]) =>
        \E j \in 1..(i - 1) :
          /\ IsProbe(calls[j]) /\ calls[j].ok
          /\ \A m \in j..i : ~IsRmLock(calls[m])
  /\ \A i \in DOMAIN calls :
        (IsProbe(calls[i]) /\ ~calls[i].ok /\ i < Len(calls)
           /\ ~IsSleep(calls[i + 1])) =>
          /\ IsRmLock(calls[i + 1])
          /\ \A m \in 1..i : IsApt(calls[m]) =>
                \E n \in m..i : IsRmLock(calls[n])

\* an installation whose update and install both ran
C8_Witness ==
  /\ pc = "rm_lock"
  /\ calls # <<>> /\ IsAptInstall(Last) /\ Last.ok
  /\ IsAptUpdate(calls[Len(calls) - 1])

IsScenarioCall(c) ==
  \/ IsLxc(c, "launch") \/ IsLxc(c, "config") \/ IsLxc(c, "file")
  \/ IsLxc(c, "stop") \/ IsLxc(c, "delete")
  \/ IsProbe(c)
  \/ c.argv = container_run(<<"tar", "xvf", basename_source>>)
  \/ c.argv = container_run(build_command)

ScenarioCalls == SelectSeq(calls, IsScenarioCall)

\* C10: a Cleanbuilder execute of step 'snap' without arguments in which
\* no call failed has issued create, configure (2 variables), probe, push,
\* expand, build with --output, pull, stop, delete, in this order.
C10_ArchiveCopyScenario ==
  (Returned /\ kind = "Cleanbuilder" /\ step = "snap" /\ args = <<>>
     /\ deb_arch = host_arch /\ FailedCalls = {}) =>
    [i \in DOMAIN ScenarioCalls |-> ScenarioCalls[i].argv] =
      << <<"lxc", "launch", "-e", image, container_name>>,
         <<"lxc", "config", "set", container_name,
           "environment.SNAPCRAFT_SETUP_CORE", "1">>,
         <<"lxc", "config", "set", container_name,
           "environment.LC_ALL", "C.UTF-8">>,
         probe_command,
         push_file(source, project_folder \o "/" \o basename_source),
         container_run(<<"tar", "xvf", basename_source>>),
         container_run(<<"snapcraft", "snap", "--output", snap_output>>),
         pull_file(project_folder \o "/" \o snap_output, snap_output),
         stop_command,
         delete_command >>

\* ---- the phases of execute -----------------------------------------------
EnsurePcs == {"launch", "config_setup_core", "config_lc_all", "ensure_status",
              "init", "project_config_setup_core", "config_idmap",
              "ensure_status_again", "start"}
TransferPcs == {"mkdir_project", "push_file", "tar",
                "ensure_mount_devices", "device_add",
                "remote_mount_devices", "device_remove", "ssh_keygen",
                "mkdir_ssh", "chmod_ssh", "tee_authorized_keys",
                "chmod_authorized_keys", "mkdir_destination", "mkdir_source",
                "get_container_address", "host_run_sftp", "host_run_ssh"}

\* 1 ensure-environment, 2 project transfer (with the sshfs installation of
\* the reverse mount), 3 network wait and provisioning, 4 build command,
\* 5 artifact retrieval, 6 teardown
PhaseOf(p, r) ==
  CASE p = "idle" -> 0
    [] p \in EnsurePcs -> 1
    [] p \in TransferPcs -> 2
    [] p \in InstallPcs -> IF r = "remote_mount" THEN 2 ELSE 3
    [] p \in {"build", "shell"} -> 4
    [] p = "finish" -> 5
    [] p \in {"stop", "delete"} -> 6
    [] p = "done" -> 7

Phase == PhaseOf(pc, ret)

tar_script == script(<<"tar", "xvf", basename_source>>)
PopenCalls == {i \in DOMAIN calls : calls[i].fn = "Popen"}

\* the project transfer of this execute has been carried out
TransferComplete ==
  CASE kind = "Cleanbuilder" ->
         \E i \in DOMAIN calls : IsRun(calls[i], tar_script) /\ calls[i].ok
    [] kind = "Project" /\ remote = "local" -> devices
    [] OTHER ->
         /\ Cardinality(PopenCalls) = 2
         /\ \A i \in PopenCalls : calls[i].ok

\* ---- C11 ---------------------------------------------------------------
\* C11: execute moves through the phases ensure-environment, transfer,
\* provisioning, build, retrieval, teardown in this order: a step stays in
\* its phase, enters the next one, or enters teardown; a phase other than
\* teardown is entered only when no error is pending and the last call of
\* the phase before succeeded; and from the first network probe of the
\* provisioning phase until retrieval the transfer is complete.
C11_PhaseStep ==
  \/ PhaseOf(pc', ret') = Phase
  \/ PhaseOf(pc', ret') = 1 /\ Phase \in {0, 7}
  \/ PhaseOf(pc', ret') = 6 /\ Phase \in 1..5
  \/ PhaseOf(pc', ret') = 7 /\ Phase = 6
  \/ /\ PhaseOf(pc', ret') = Phase + 1
     /\ Phase \in 1..4
     /\ err' = NoError
     /\ calls' # <<>> /\ calls'[Len(calls')].ok

IsDeviceCall(c, verb) ==
  IsLxc(c, "config") /\ Len(c.argv) >= 4 /\ c.argv[3] = "device"
    /\ c.argv[4] = verb
IsFileCall(c, verb) ==
  IsLxc(c, "file") /\ Len(c.argv) >= 3 /\ c.argv[3] = verb

DeviceAddCalls == {i \in DOMAIN calls : IsDeviceCall(calls[i], "add")}
DeviceRemoveCalls == {i \in DOMAIN calls : IsDeviceCall(calls[i], "remove")}
PullCalls == {i \in DOMAIN calls : IsFileCall(calls[i], "pull")}

mkdir_project_script == script(<<"mkdir", project_folder>>)
reverse_mount_scripts ==
  {script(<<"mkdir", "-p", ssh_config>>),
   script(<<"chmod", "700", ssh_config>>),
   script(<<"tee", "-a", ssh_authorized_keys>>),
   script(<<"chmod", "600", ssh_authorized_keys>>),
   script(<<"apt-get", "install", "-y", "sshfs">>),
   script(<<"mkdir", "-p", "/" \o project_folder>>),
   script(<<"mkdir", "-p", source>>)}

IsArchiveCopy(c) ==
  \/ IsRun(c, mkdir_project_script) \/ IsRun(c, tar_script)
  \/ IsFileCall(c, "push")
IsLocalMount(c) == IsDeviceCall(c, "add")
IsReverseMount(c) ==
  \/ IsDeviceCall(c, "remove")
  \/ c.fn = "Popen"
  \/ (c.fn = "check_call" /\ c.argv[1] = "ssh-keygen")
  \/ \E scr \in reverse_mount_scripts : IsRun(c, scr)

BareClean == step = "clean" /\ args = <<>>

\* ---- C15 ---------------------------------------------------------------
\* C15 (as claimed): over all invocations at most one device-add call is
\* issued for the container, and none while the folder is a device.
C15_AtMostOneDeviceAddCall ==
  /\ Len(device_add_calls) <= 1
  /\ pc = "device_add" => ~devices

\* C15 (amended): over all invocations at most one device-add call
\* succeeds and none is issued after it; one invocation issues at most one
\* device-add call, and only when the folder is not a device of the
\* container; when it is a device the attachment changes nothing.
C15_DeviceAddIdempotent ==
  /\ [](/\ \A i \in DOMAIN device_add_calls :
              device_add_calls[i] => i = Len(device_add_calls)
        /\ Cardinality(DeviceAddCalls) <= 1
        /\ pc = "device_add" => ~devices)
  /\ [][(pc = "ensure_mount_devices" /\ devices) =>
          (pc' # "device_add" /\ UNCHANGED env)]_vars

\* the second invocation found the device of the first and added nothing
C15_Witness ==
  /\ kind = "Project" /\ remote = "local"
  /\ executions = 2 /\ Phase = 3
  /\ device_add_calls = <<TRUE>>
  /\ DeviceAddCalls = {}

\* ---- C16 ---------------------------------------------------------------
\* C16: the sftp-server and the ssh client are spawned only while the
\* project folder is not a device of the container, after the device
\* removal if there was one; once the mount is established this mount has
\* spawned exactly two processes and both are tracked in self._processes
\* (exactly two in all for the first execute of a builder).
C16_ReverseMount ==
  /\ PopenCalls # {} => ~devices
  /\ \A i \in DeviceRemoveCalls : \A j \in PopenCalls : i < j
  /\ Cardinality(PopenCalls) <= 2
  /\ (kind = "Project" /\ remote # "local" /\ Phase \in 3..5) =>
        /\ Cardinality(PopenCalls) = 2
        /\ Len(processes) >= 2
        /\ processes[Len(processes) - 1].args = <<"/usr/lib/sftp-server">>
        /\ processes[Len(processes)].args[1] = "ssh"
        /\ executions = 1 => Len(processes) = 2

\* a device of an earlier local mount was removed, then the bridge was made
C16_Witness ==
  /\ kind = "Project" /\ remote # "local"
  /\ executions = 1 /\ Phase = 3
  /\ \E i \in DeviceRemoveCalls : calls[i].ok
  /\ Len(processes) = 2

PulledAfterBuild ==
  \A i \in BuildCalls : calls[i].ok =>
    \E j \in PullCalls : j > i /\ \A k \in StopCalls : j < k

\* C18 (as claimed): for every builder, once teardown starts after a
\* successful build command the artifact has been pulled to the host.
C18_ArtifactAlwaysPulled ==
  Phase \in {6, 7} => PulledAfterBuild

\* C18 (amended): a Cleanbuilder pulls the artifact after every successful
\* build command and before the stop; a Project issues no pull at all.
C18_ArtifactPulledByCleanbuilder ==
  /\ (kind = "Cleanbuilder" /\ Phase \in {6, 7}) => PulledAfterBuild
  /\ kind = "Project" => PullCalls = {}

\* a Cleanbuilder that pulled the artifact of a 'clean' step
C18_Witness ==
  /\ Returned /\ kind = "Cleanbuilder" /\ step = "clean"
  /\ \E i \in BuildCalls : calls[i].ok
  /\ \E j \in PullCalls : calls[j].ok

InitNoFaults == InitBuilder /\ faults = FALSE /\ other = NoOther

SpecNoFaults == InitNoFaults /\ [][Next]_vars

InitCalls == {i \in DOMAIN calls : IsLxc(calls[i], "init")}
StartCalls == {i \in DOMAIN calls : IsLxc(calls[i], "start")}

\* the execute before this one returned and left the container in place
FirstLeftStopped ==
  /\ executions = 2 /\ Len(prior) = 1
  /\ prior[1].err = NoError
  /\ ~(prior[1].step = "clean" /\ prior[1].args = <<>>)

\* the second execute starts the container the first one stopped, without
\* creating it and without attaching the device again
SecondStartsWithoutCreating ==
  (kind = "Project" /\ FirstLeftStopped) =>
    /\ InitCalls = {}
    /\ DeviceAddCalls = {}
    /\ Phase \in 2..5 => \E i \in StartCalls : calls[i].ok

\* every execute whose build command did not fail completes without error
CompletesWithoutError ==
  (Returned /\ \A i \in BuildCalls : calls[i].ok) => err = NoError

\* C14: builders for the same target executed one after the other all
\* complete without error, and for a Project the second execute finds the
\* container stopped by the first, starts it without creating it again
\* and does not attach the project device a second time.
C14_SequentialBuilders ==
  /\ CompletesWithoutError
  /\ SecondStartsWithoutCreating

\* ---- two invocations on one persistent container ------------------------
\* Two snapcraft processes build the same project: the container name is
\* derived from the project name alone, so both address one container.
\* One invocation is running, the context of the other is kept in `other`.
Context ==
  [pc |-> pc, err |-> err, calls |-> calls, step |-> step, args |-> args,
   ret |-> ret, packages |-> packages, retry_count |-> retry_count,
   not_connected |-> not_connected, ensured |-> ensured,
   processes |-> processes, executions |-> executions]

\* the operating system runs the other process; each call of a process to
\* lxc is one step
switch ==
  /\ other # NoOther
  /\ other' = Context
  /\ pc' = other.pc
  /\ err' = other.err
  /\ calls' = other.calls
  /\ step' = other.step
  /\ args' = other.args
  /\ ret' = other.ret
  /\ packages' = other.packages
  /\ retry_count' = other.retry_count
  /\ not_connected' = other.not_connected
  /\ ensured' = other.ensured
  /\ processes' = other.processes
  /\ executions' = other.executions
  /\ UNCHANGED <<cfg, env, faults, hist>>

InitConcurrent ==
  /\ InitBuilder
  /\ kind = "Project"
  /\ remote = "local"
  /\ faults = FALSE
  /\ other = Context

\* each of the two invocations runs execute once
NextConcurrent ==
  \/ \E s \in Steps, a \in ArgLists: executions = 0 /\ execute(s, a)
  \/ ensure_status \/ lxc_init \/ project_config_setup_core \/ config_idmap
  \/ ensure_status_again \/ start
  \/ ensure_mount_devices \/ device_add
  \/ wait_for_network \/ sleep \/ probe
  \/ apt_update \/ apt_install \/ rm_lock
  \/ build \/ shell \/ project_finish
  \/ stop \/ delete
  \/ switch

SpecConcurrent == InitConcurrent /\ [][NextConcurrent]_vars

\* ---- C12 ---------------------------------------------------------------
IsRaceCall(c) ==
  IsLxc(c, "init") \/ IsLxc(c, "start") \/ IsDeviceCall(c, "add")

\* C12: when two invocations run against one persistent container and no
\* command fails for a reason of its own, no 'lxc init', 'lxc start' or
\* device add of either invocation fails: a container that exists, runs
\* or has the device already is left as it is.
C12_IdempotentUnderRaces ==
  \A i \in DOMAIN calls : IsRaceCall(calls[i]) => calls[i].ok

\* ---- C13 ---------------------------------------------------------------
\* the invocation is between its first call to lxc and the end of execute
InEnvironment(p, log) == log # <<>> /\ p # "done"

\* C13: two invocations on the same (remote, container name) never operate
\* on the container at the same time, and the stop of one does not take
\* effect while the other is between its transfer and its build command.
C13_Serialized ==
  /\ [](~(InEnvironment(pc, calls) /\ InEnvironment(other.pc, other.calls)))
  /\ [][(pc = "stop" /\ calls' # calls /\ calls'[Len(calls')].ok) =>
          ~(other.calls # <<>> /\ PhaseOf(other.pc, other.ret) \in 2..4)]_vars

\* ---- C21 ---------------------------------------------------------------
IsCheckCall(c) == c.fn = "check_call"

\* the verbs of the state-changing lxc commands of a log, in order
LxcVerbs(log) ==
  LET changing == SelectSeq(log, IsCheckCall)
  IN  [i \in DOMAIN changing |-> changing[i].argv[2]]

\* _ensure_container returns in this step
EnsureCompletes == ensured' /\ ~ensured

\* C21: a Project issues 'lxc init' only for an absent container and
\* 'lxc start' only for a stopped one; when _ensure_container returns, the
\* container is running and the commands issued were init, the two config
\* sets and start in that order (it was absent), start alone (it was
\* stopped) or none (it was running), each without error.
C21_EnsureByStatus ==
  /\ [](kind = "Project" =>
          /\ pc = "init" => container_status = "absent"
          /\ pc = "start" => container_status = "Stopped"
          /\ (pc \in EnsurePcs /\ InitCalls = {} /\ container_status = "Running")
                => StartCalls = {})
  /\ [][(kind = "Project" /\ EnsureCompletes) =>
          /\ container_status' = "Running"
          /\ \A i \in DOMAIN calls' : calls'[i].ok
          /\ LxcVerbs(calls') \in {<<"init", "config", "config", "start">>,
                                   <<"start">>, <<>>}]_vars

\* an absent container was created, configured and started
C21_Witness ==
  /\ kind = "Project" /\ ensured /\ Phase = 2
  /\ LxcVerbs(calls) = <<"init", "config", "config", "start">>
  /\ container_status = "Running"

\* ---- C22 ---------------------------------------------------------------
IsExec(c) == IsLxc(c, "exec")
IsConfigSet(c, key, value) ==
  /\ IsLxc(c, "config") /\ Len(c.argv) = 6
  /\ c.argv[3] = "set" /\ c.argv[5] = key /\ c.argv[6] = value

\* the container was created by this execute
CreatedHere ==
  \E i \in DOMAIN calls :
    (IsLxc(calls[i], "launch") \/ IsLxc(calls[i], "init")) /\ calls[i].ok

ConfiguredBefore(j, key, value) ==
  \E i \in 1..(j - 1) : IsConfigSet(calls[i], key, value) /\ calls[i].ok

\* C22: in an execute that created the container, launched or initialised,
\* environment.LC_ALL=C.UTF-8 and environment.SNAPCRAFT_SETUP_CORE=1 have
\* both been set before the first command is executed in the container.
C22_FixedConfiguration ==
  CreatedHere =>
    \A j \in DOMAIN calls : IsExec(calls[j]) =>
      /\ ConfiguredBefore(j, "environment.LC_ALL", "C.UTF-8")
      /\ ConfiguredBefore(j, "environment.SNAPCRAFT_SETUP_CORE", "1")

\* ---- C23 ---------------------------------------------------------------
IsCreateOrStart(c) ==
  IsLxc(c, "launch") \/ IsLxc(c, "init") \/ IsLxc(c, "start")

\* C23: when the launch, the init or the start of the container fails,
\* the exception that leaves _ensure_container is ContainerConnectionError
\* and not the CalledProcessError of the failed command.
C23_ConnectionError ==
  (pc = "stop" /\ calls # <<>> /\ IsCreateOrStart(Last) /\ ~Last.ok) =>
    err.type = "ContainerConnectionError"

\* ---- construction ------------------------------------------------------
ConstructPcs == {"new", "verify_remote", "get_remote_info"}
Constructed == pc \notin ConstructPcs \cup {"failed"}
Range(seq) == {seq[i] : i \in DOMAIN seq}

IsGetDefault(c) == c.argv = <<"lxc", "remote", "get-default">>
IsVerifyListing(c) == c.argv = <<"lxc", "list", remote \o ":">>
IsInfo(c) == c.argv = <<"lxc", "info", remote \o ":">>

\* ---- C24 ---------------------------------------------------------------
\* the image of each packaged server architecture
ImageOf ==
  [k \in {"x86_64", "armv7l"} |->
     IF k = "x86_64" THEN "ubuntu:xenial/amd64" ELSE "ubuntu:xenial/armhf"]

\* C24: a builder exists only for a server architecture that has a Debian
\* architecture, and its image, the one every launch and init names, is
\* the image of that server architecture whatever the target architecture
\* of the project; for any other server architecture __init__ raises
\* SnapcraftEnvironmentError 'Unrecognized server architecture' after the
\* info query and has issued nothing but queries.
C24_ArchitectureResolution ==
  /\ Constructed =>
        /\ kernel \in DOMAIN ImageOf
        /\ image = ImageOf[kernel]
        /\ \A i \in DOMAIN calls :
              /\ IsLxc(calls[i], "launch") => calls[i].argv[4] = ImageOf[kernel]
              /\ IsLxc(calls[i], "init") => calls[i].argv[3] = ImageOf[kernel]
  /\ (kernel \notin DOMAIN ImageOf /\ calls # <<>> /\ IsInfo(Last) /\ Last.ok) =>
        /\ pc = "failed"
        /\ err.type = "SnapcraftEnvironmentError"
        /\ err.msg = <<"Unrecognized server architecture ", kernel>>
        /\ \A i \in DOMAIN calls : calls[i].fn = "check_output"

\* a project for amd64 is built on an armv7l server in an armhf image
C24_Witness ==
  /\ kernel = "armv7l" /\ deb_arch = "amd64"
  /\ \E i \in DOMAIN calls :
       IsLxc(calls[i], "launch") /\ calls[i].ok
         /\ calls[i].argv[4] = "ubuntu:xenial/armhf"

\* ---- C25 ---------------------------------------------------------------
\* the target architecture differs from the architecture of the server
CrossBuild ==
  \/ kernel = "x86_64" /\ deb_arch # "amd64"
  \/ kernel = "armv7l" /\ deb_arch # "armhf"

ExpectedBuildWords ==
  CASE step = "snap" /\ CrossBuild ->
         <<"snapcraft", step, "--output", snap_output, "--target-arch", deb_arch>> \o args
    [] step = "snap" /\ ~CrossBuild ->
         <<"snapcraft", step, "--output", snap_output>> \o args
    [] step # "snap" /\ CrossBuild ->
         <<"snapcraft", step, "--target-arch", deb_arch>> \o args
    [] OTHER -> <<"snapcraft", step>> \o args

C27_LxcNotInstalled ==
  (pc = "failed" /\ ~lxc_installed) =>
    /\ err.type = "SnapcraftEnvironmentError"
    /\ err.msg = lxd_not_installed_text

\* ---- C28 ---------------------------------------------------------------
\* C28: when the sftp-server or the ssh client cannot be started, the
\* exception that leaves _remote_mount is SnapcraftEnvironmentError and
\* not the error Popen raised.
C28_BridgeNotStarted ==
  (pc = "stop" /\ calls # <<>> /\ Last.fn = "Popen" /\ ~Last.ok) =>
    err.type = "SnapcraftEnvironmentError"

\* ---- C29 ---------------------------------------------------------------
squashfuse_install_scripts ==
  {script(<<"apt-get", "install">> \o pkgs) :
     pkgs \in {<<"-y", "squashfuse">>, <<"squashfuse", "-y">>,
               <<"-y", "squashfuse", "snapcraft">>,
               <<"-y", "snapcraft", "squashfuse">>}}

InstallsSquashfuse(c) == \E scr \in squashfuse_install_scripts : IsRun(c, scr)

\* C29: when the build command is run, an 'apt-get install' that names
\* squashfuse has succeeded in this execute, after an 'apt-get update'.
C29_SquashfuseInstalled ==
  pc = "build" =>
    \E j \in DOMAIN calls :
      /\ InstallsSquashfuse(calls[j]) /\ calls[j].ok
      /\ \E i \in 1..(j - 1) : IsAptUpdate(calls[i]) /\ calls[i].ok

\* ---- C30 ---------------------------------------------------------------
snapcraft_install_script == script(<<"apt-get", "install", "-y", "snapcraft">>)

AllProbes == {i \in DOMAIN calls : IsProbe(calls[i])}

\* a wait begins with a sleep that follows no probe
WaitEntries ==
  {i \in DOMAIN calls :
     IsSleep(calls[i]) /\ (i = 1 \/ ~IsProbe(calls[i - 1]))}

\* C36: a Cleanbuilder execute enters _wait_for_network at most once,
\* exactly once when it goes on to install the packages, and when its
\* first probe succeeds that probe is the only one of the execute.
C36_OneNetworkWait ==
  kind = "Cleanbuilder" =>
    /\ Cardinality(WaitEntries) <= 1
    /\ pc \in {"probe", "apt_update", "apt_install", "build", "finish"} =>
          Cardinality(WaitEntries) = 1
    /\ (Returned /\ err = NoError) => Cardinality(WaitEntries) = 1
    /\ \A i \in AllProbes :
          (calls[i].ok /\ \A j \in AllProbes : i <= j) => AllProbes = {i}

\* the build command is reached after one probe
C36_Witness ==
  /\ kind = "Cleanbuilder" /\ pc = "build"
  /\ Cardinality(AllProbes) = 1
  /\ \A i \in AllProbes : calls[i].ok

\* ---- C37 ---------------------------------------------------------------
BuildFailed == \E i \in BuildCalls : ~calls[i].ok

\* C37: in debug mode, after a build command that failed, the stop is
\* issued only after the shell call has ended, no pull is issued, and an
\* execute that has ended has issued the stop exactly once, whether the
\* shell succeeded or failed.
C37_DebugShellThenStop ==
  (debug /\ BuildFailed) =>
    /\ pc = "shell" => StopCalls = {}
    /\ \A s \in StopCalls : \E h \in ShellCalls : h < s
    /\ PullCalls = {}
    /\ Returned => Cardinality(StopCalls) = 1

\* the shell exited with an error and the container was stopped once
C37_Witness ==
  /\ Returned /\ debug /\ BuildFailed
  /\ \E h \in ShellCalls : ~calls[h].ok
  /\ Cardinality(StopCalls) = 1

\* ---- C38 ---------------------------------------------------------------
\* C38: a Project issues 'lxc delete' only after the stop of the same
\* execute succeeded and while no exception is propagating; a 'clean'
\* whose build command failed without debug, or whose stop failed, issues
\* no delete and leaves the container in place.
C38_DeleteAfterCleanReturn ==
  kind = "Project" =>
    /\ pc = "delete" => err = NoError
    /\ (pc = "delete" \/ DeleteCalls # {}) =>
          /\ \E s \in StopCalls :
                calls[s].ok /\ \A d \in DeleteCalls : s < d
          /\ \A i \in FailedCalls :
                i \in DeleteCalls \/ calls[i].argv = shell_command
                  \/ (debug /\ i \in BuildCalls) \/ IsWaitCall(calls[i])
    /\ ((~debug /\ BuildFailed) \/ \E s \in StopCalls : ~calls[s].ok) =>
          pc # "delete" /\ DeleteCalls = {}
    /\ (~debug /\ BuildFailed /\ Returned) => Exists

\* a bare 'clean' whose build command failed left the container stopped
C38_Witness ==
  /\ Returned /\ kind = "Project" /\ BareClean
  /\ ~debug /\ BuildFailed
  /\ \E s \in StopCalls : calls[s].ok
  /\ DeleteCalls = {}
  /\ container_status = "Stopped"

\* ---- C39 ---------------------------------------------------------------
pull_snap_output ==
  <<"lxc", "file", "pull",
    container_name \o "/build_project/snap.snap", "snap.snap">>

\* C39: in a Cleanbuilder execute the call that follows a build command
\* that succeeded is the pull of the snap named at construction, whatever
\* the step; when that pull fails its CalledProcessError propagates and
\* the execute ends with an error.
C39_PullAfterEveryBuild ==
  kind = "Cleanbuilder" =>
    /\ \A i \in BuildCalls : calls[i].ok =>
          IF i = Len(calls) THEN pc = "finish"
          ELSE calls[i + 1].argv = pull_snap_output
    /\ \A j \in PullCalls : ~calls[j].ok =>
          /\ j - 1 \in BuildCalls
          /\ pc = "stop" => err = [type |-> "CalledProcessError", at |-> j]
          /\ Returned => err # NoError

\* the pull after a 'clean' step failed and so did the execute
C39_Witness ==
  /\ Returned /\ kind = "Cleanbuilder" /\ step = "clean"
  /\ \E i \in BuildCalls : calls[i].ok
  /\ \E j \in PullCalls : ~calls[j].ok
  /\ err.type = "CalledProcessError"

\* ---- C34 ---------------------------------------------------------------
IsSftpServer(p) == p.args[1] = "/usr/lib/sftp-server"
IsSshClient(p) == p.args[1] = "ssh"
Pipes == {pipe1, pipe2}
Readers(pipe) == {j \in DOMAIN processes : processes[j].stdin = pipe.read}
Writers(pipe) == {j \in DOMAIN processes : processes[j].stdout = pipe.write}

\* C34: of the two processes of a reverse mount the sftp-server reads the
\* read end of the first pipe and writes the write end of the second, the
\* ssh client, started right after it, reads the read end of the second
\* pipe and writes the write end of the first; the four ends are distinct,
\* no process reads a pipe that it writes, and what one process of the
\* pair writes is read by the other process of the pair only.
C34_PipeBridgeWiring ==
  /\ Cardinality({pipe1.read, pipe1.write, pipe2.read, pipe2.write}) = 4
  /\ \A j \in DOMAIN processes :
        LET p == processes[j] IN
        /\ IsSftpServer(p) \/ IsSshClient(p)
        /\ IsSftpServer(p) => p.stdin = pipe1.read /\ p.stdout = pipe2.write
        /\ IsSshClient(p) =>
              /\ p.stdin = pipe2.read /\ p.stdout = pipe1.write
              /\ j > 1 /\ IsSftpServer(processes[j - 1])
        /\ \A pipe \in Pipes : ~(j \in Readers(pipe) /\ j \in Writers(pipe))
        /\ \A pipe \in Pipes :
              j \in Writers(pipe) =>
                \A k \in Readers(pipe) :
                  IsSftpServer(p) # IsSftpServer(processes[k])

\* both processes of a reverse mount are running
C34_Witness ==
  /\ kind = "Project" /\ remote # "local"
  /\ pc = "wait_for_network" /\ ret = "execute"
  /\ Len(processes) = 2
  /\ IsSftpServer(processes[1]) /\ IsSshClient(processes[2])
  /\ \A j \in 1..2 : ~processes[j].terminated

\* ---- C35 ---------------------------------------------------------------
IsKeygen(c) == c.argv[1] = "ssh-keygen"
KeygenCalls == {i \in DOMAIN calls : IsKeygen(calls[i])}
IdentityFileOption == "IdentityFile=id_" \o container_name

\* C35: ssh-keygen is about to run only while the key file does not
\* exist, and an execute that found the key file issues no ssh-keygen; a
\* key file that exists stays; and the file named to ssh-keygen and the
\* identity file named to every ssh client are 'id_' followed by the
\* container name.
C35_KeyState ==
  /\ pc = "ssh_keygen" => ~keyfile
  /\ keyfile => KeygenCalls = {}
  /\ Cardinality(KeygenCalls) <= 1
  /\ \A i \in KeygenCalls :
        calls[i].argv = <<"ssh-keygen", "-o", "-N", "", "-f",
                          "id_" \o container_name>>
  /\ \A j \in DOMAIN processes :
        IsSshClient(processes[j]) =>
          \E k \in DOMAIN processes[j].args :
            /\ k > 1 /\ processes[j].args[k - 1] = "-o"
            /\ processes[j].args[k] = IdentityFileOption

C35_KeyGeneratedOnce ==
  /\ []C35_KeyState
  /\ [][keyfile => keyfile']_vars

\* a second reverse mount started the ssh client with the key file that
\* the first one had used, without running ssh-keygen
C35_Witness ==
  /\ executions = 2 /\ keyfile
  /\ kind = "Project" /\ remote # "local"
  /\ Len(processes) = 4
  /\ KeygenCalls = {}

\* ---- C40 ---------------------------------------------------------------
IsQuery(c) ==
  /\ c.fn = "check_output"
  /\ IsGetDefault(c) \/ IsVerifyListing(c) \/ IsInfo(c)

\* C40: until execute is called the only commands issued are the queries
\* 'lxc remote get-default', 'lxc list <remote>:' and 'lxc info <remote>:',
\* at most one of each, and no step of the construction, failed or not,
\* changes the status of the container, its devices or the key file.
C40_QueriesOnly ==
  executions = 0 =>
    /\ \A i \in DOMAIN calls : IsQuery(calls[i])
    /\ \A i, j \in DOMAIN calls : calls[i].argv = calls[j].argv => i = j
    /\ processes = <<>>

PassedNames == {v[1] : v \in HostVariables}
EnvironmentKey(name) == "environment." \o name

\* C32: once an execute that created the container runs its first command
\* in it, every variable of PassedNames set on the host has been set as
\* environment.<NAME> of the container to the value of the host, and no
\* such key has been set for a variable that the host does not set.
C32_EnvironmentPassedThrough ==
  CreatedHere =>
    /\ \A j \in DOMAIN calls : IsExec(calls[j]) =>
          \A v \in environ :
            ConfiguredBefore(j, EnvironmentKey(v[1]), v[2])
    /\ \A i \in DOMAIN calls, n \in PassedNames :
          (IsLxc(calls[i], "config") /\ Len(calls[i].argv) = 6
             /\ calls[i].argv[5] = EnvironmentKey(n)) =>
            <<n, calls[i].argv[6]>> \in environ

====
